---- MODULE Spec2Model ----
(***************************************************************************)
(* townstats (src/main.go, final revision, lines 229-591): one run of      *)
(* main -> tdp -> getUsers, activeUserCount, getNews, getUptime ->         *)
(* json.Marshal -> Printf.                                                 *)
(*                                                                         *)
(* Text is modelled as a sequence of tokens.  A token is one character     *)
(* (" ", "\t", "\n", ":", ",", "#", "-") or a word standing for a run of   *)
(* ordinary characters ("title", "pubdate", "Hello", "alice", ...), or, in *)
(* HTML pages, a tag ("<title>", "</title>").  All string functions the    *)
(* code calls are computed on these sequences.                             *)
(***************************************************************************)
EXTENDS Integers, Sequences, FiniteSets, TLC

VARIABLES
    pc,                 \* where the run is
    \* ---- the environment the run reads (fixed during a run, spec.md s.5)
    defaultIndexFile,   \* the file at DEFAULT_INDEX_PATH
    lsOut,              \* what `ls homesDir()` prints
    envSystemUsers,     \* os.Getenv("SYSTEM_USERS")
    homes,              \* per listed name: its public_html tree and index files
    whoOut,             \* what `who` prints
    newsFile,           \* the file at NEWS_PATH
    uptimeOut,          \* what `uptime` prints
    \* ---- getUsers
    defaultIndexHTML, lsPos, users,
    \* ---- activeUserCount
    whoPos, activeUsers,
    \* ---- getNews
    newsPos, inMeta, inContent, current, entries,
    \* ---- tdp / main
    err,                \* the error of the last component that returned
    activeCount, uptime, stdout, diag, exitCode,
    calls               \* how many times each component has been entered

envVars  == <<defaultIndexFile, lsOut, envSystemUsers, homes, whoOut, newsFile, uptimeOut>>
userVars == <<defaultIndexHTML, lsPos, users>>
whoVars  == <<whoPos, activeUsers>>
newsVars == <<newsPos, inMeta, inContent, current, entries>>
mainVars == <<err, activeCount, uptime, stdout, diag, exitCode>>
vars     == <<pc, envVars, userVars, whoVars, newsVars, mainVars, calls>>

(***************************************************************************)
(* Bounds of the model.                                                    *)
(***************************************************************************)
MaxNewsLines == 4      \* lines in a news file
MaxBody      == 2      \* body lines of the one-record news files
MaxHomes     == 2      \* names `ls` lists
MaxWhoLines  == 3      \* lines `who` prints

(***************************************************************************)
(* strings, bufio.Scanner and fmt as the code uses them.                   *)
(***************************************************************************)
NL == "\n"

Min(a, b) == IF a < b THEN a ELSE b

\* unicode.IsSpace, on the characters of the model
IsSpace(c) == c \in {" ", "\t", "\n", "\r"}

\* strings.TrimSpace
TrimSpace(s) ==
    LET keep == {i \in 1..Len(s) : ~IsSpace(s[i])}
    IN  IF keep = {} THEN <<>>
        ELSE LET lo == CHOOSE i \in keep : \A j \in keep : i <= j
                 hi == CHOOSE i \in keep : \A j \in keep : j <= i
             IN  SubSeq(s, lo, hi)

\* strings.HasPrefix
HasPrefix(s, prefix) ==
    /\ Len(s) >= Len(prefix)
    /\ SubSeq(s, 1, Len(prefix)) = prefix

\* strings.Index for a one-character separator, from position `from`;
\* Len(s) + 1 when there is none
IndexFrom(s, sep, from) ==
    LET hits == {i \in from..Len(s) : s[i] = sep}
    IN  IF hits = {} THEN Len(s) + 1
        ELSE CHOOSE i \in hits : \A j \in hits : i <= j

\* strings.SplitN(s, sep, 2): one piece when sep does not occur, else two
SplitN2(s, sep) ==
    LET i == IndexFrom(s, sep, 1)
    IN  IF i > Len(s) THEN <<s>>
        ELSE <<SubSeq(s, 1, i - 1), SubSeq(s, i + 1, Len(s))>>

\* strings.Split(s, sep): every piece, in order
RECURSIVE SplitFrom(_, _, _)
SplitFrom(s, sep, from) ==
    LET i == IndexFrom(s, sep, from)
    IN  IF i > Len(s) THEN <<SubSeq(s, from, Len(s))>>
        ELSE <<SubSeq(s, from, i - 1)>> \o SplitFrom(s, sep, i + 1)

Split(s, sep) == SplitFrom(s, sep, 1)

\* bufio.Scanner with the default ScanLines over text `s`, the next unread
\* position being `p`: Scan() reports whether a line is left, Text() is the
\* line without its "\n" (and without one trailing "\r").
ScanHasLine(s, p) == p <= Len(s)

ScanText(s, p) ==
    LET e    == IndexFrom(s, NL, p)
        line == SubSeq(s, p, e - 1)
    IN  IF Len(line) > 0 /\ line[Len(line)] = "\r"
        THEN SubSeq(line, 1, Len(line) - 1) ELSE line

ScanNextPos(s, p) == IndexFrom(s, NL, p) + 1

\* every line the scanner yields from position p on
RECURSIVE ScanAll(_, _)
ScanAll(s, p) ==
    IF ScanHasLine(s, p)
    THEN <<ScanText(s, p)>> \o ScanAll(s, ScanNextPos(s, p))
    ELSE <<>>

\* the text of a file (or a command's output) holding the given lines;
\* the last line ends with "\n" iff eol
RECURSIVE Unlines(_, _)
Unlines(lines, eol) ==
    IF lines = <<>> THEN <<>>
    ELSE IF Len(lines) = 1 THEN lines[1] \o (IF eol THEN <<NL>> ELSE <<>>)
    ELSE lines[1] \o <<NL>> \o Unlines(Tail(lines), eol)

\* all sequences over S of length at most n
SeqUpTo(S, n) == UNION {[1..k -> S] : k \in 0..n}

\* a file: st = "ok" (bytes can be read), "noent" (stat and open fail),
\* "ioerr" (stat and open succeed, reading fails)
File(st, bytes) == [st |-> st, bytes |-> bytes]
NoFile == File("noent", <<>>)

NoErr == "nil"

(***************************************************************************)
(* The per-user functions (User Profiler).  A home is                      *)
(*   [walk, html, htm]: walk is what filepath.Walk meets under             *)
(*   <home>/public_html, in order, each entry [err, mtime]; html and htm   *)
(*   are the files public_html/index.html and public_html/index.htm.       *)
(***************************************************************************)
Home(walk, html, htm) == [walk |-> walk, html |-> html, htm |-> htm]
WalkOk(t) == [err |-> FALSE, mtime |-> t]
WalkErr   == [err |-> TRUE, mtime |-> 0]

\* indexPathFor: the first of index.html, index.htm that os.Stat finds;
\* "" stands for the error return
indexPathFor(h) ==
    IF h.html.st # "noent" THEN "index.html"
    ELSE IF h.htm.st # "noent" THEN "index.htm"
    ELSE ""

IndexFileOf(h, indexPath) == IF indexPath = "index.html" THEN h.html ELSE h.htm

\* pageTitleRe.FindStringSubmatch: leftmost "<title...>" that has a
\* "</title>" after it on the same line, up to the last such "</title>"
\* (greedy .*, and . does not match "\n"); <<>> when there is no match,
\* else <<whole match, group 1>>
FindTitleSubmatch(content) ==
    LET Closes(i) == {j \in (i + 1)..Len(content) :
                        /\ content[j] = "</title>"
                        /\ \A k \in (i + 1)..(j - 1) : content[k] # NL}
        opens == {i \in 1..Len(content) : content[i] = "<title>" /\ Closes(i) # {}}
    IN  IF opens = {} THEN <<>>
        ELSE LET i == CHOOSE x \in opens : \A y \in opens : x <= y
                 j == CHOOSE x \in Closes(i) : \A y \in Closes(i) : y <= x
             IN  <<SubSeq(content, i, j), SubSeq(content, i + 1, j - 1)>>

pageTitleFor(h) ==
    LET indexPath == indexPathFor(h)
        f         == IndexFileOf(h, indexPath)
    IN  IF indexPath = "" THEN <<>>
        ELSE IF f.st # "ok" THEN <<>>
        ELSE LET titleMatch == FindTitleSubmatch(f.bytes)
             IN  IF Len(titleMatch) < 2 THEN <<>> ELSE titleMatch[2]

\* mtimeFor: the walk callback raises maxMtime until the walk reports an error
RECURSIVE WalkFrom(_, _, _)
WalkFrom(walk, i, maxMtime) ==
    IF i > Len(walk) THEN maxMtime
    ELSE IF walk[i].err THEN maxMtime
    ELSE WalkFrom(walk, i + 1,
                  IF maxMtime < walk[i].mtime THEN walk[i].mtime ELSE maxMtime)

mtimeFor(h) == WalkFrom(h.walk, 1, 0)

\* a user without an entry page taken to have the default page
detectDefaultPageForAbsentIsDefault(h, defaultHTML) ==
    LET indexPath == indexPathFor(h)
        f         == IndexFileOf(h, indexPath)
    IN  IF indexPath = "" THEN TRUE
        ELSE IF f.st # "ok" THEN FALSE
        ELSE f.bytes = defaultHTML

detectDefaultPageFor(h, defaultHTML) ==
    LET indexPath == indexPathFor(h)
        f         == IndexFileOf(h, indexPath)
    IN  IF indexPath = "" THEN FALSE
        ELSE IF f.st # "ok" THEN FALSE
        ELSE f.bytes = defaultHTML

\* the user literal of getUsers
NewUser(username, h, defaultHTML) ==
    [ Username    |-> username,
      PageTitle   |-> pageTitleFor(h),
      Mtime       |-> mtimeFor(h),
      DefaultPage |-> detectDefaultPageFor(h, defaultHTML) ]

Range(f) == {f[i] : i \in DOMAIN f}

BuiltinSystemUsers == {<<"ubuntu">>, <<"ttadmin">>, <<"root">>}

\* systemUsers without the SYSTEM_USERS loop
systemUsersBuiltinOnly(env) == BuiltinSystemUsers

\* systemUsers: the set of keys of the map
systemUsers(env) ==
    BuiltinSystemUsers \cup (IF env # <<>> THEN Range(Split(env, ",")) ELSE {})

\* getDefaultHTML: [bytes, err]
getDefaultHTML(f) ==
    IF f.st = "noent" THEN [bytes |-> <<>>, err |-> "could not open default index"]
    ELSE IF f.st = "ioerr" THEN [bytes |-> <<>>, err |-> "could not read default index"]
    ELSE [bytes |-> f.bytes, err |-> NoErr]

liveUserCount(us) == Cardinality({i \in 1..Len(us) : ~us[i].DefaultPage})

(***************************************************************************)
(* tdp and main: what follows a component's return.                        *)
(***************************************************************************)
\* tdp going on after a component's error
TdpCheckIgnored(e, wrap, next) ==
    [pc |-> next, exitCode |-> -1, diag |-> <<>>, err |-> e]

\* tdp's `if err != nil { return tildeData{}, fmt.Errorf(wrap, err) }` followed
\* by main's log.Fatal(err): the next position, exit status and diagnostic
TdpCheck(e, wrap, next) ==
    IF e # NoErr
    THEN [pc |-> "exit", exitCode |-> 1, diag |-> <<wrap, e>>, err |-> e]
    ELSE [pc |-> next, exitCode |-> -1, diag |-> <<>>, err |-> e]

\* the run goes on inside the current component
Inside(next) == [pc |-> next, exitCode |-> -1, diag |-> <<>>, err |-> NoErr]

Goto(r) ==
    /\ pc' = r.pc
    /\ exitCode' = r.exitCode
    /\ diag' = r.diag
    /\ err' = r.err

Enter(f) == calls' = [calls EXCEPT ![f] = @ + 1]

(***************************************************************************)
(* getUsers                                                                *)
(***************************************************************************)
\* lines 476-479: the default template is read first
GetUsersDefault ==
    /\ pc = "getUsers"
    /\ Enter("getUsers")
    /\ LET d == getDefaultHTML(defaultIndexFile)
       IN  /\ defaultIndexHTML' = d.bytes
           /\ Goto(IF d.err = NoErr THEN Inside("getUsers.ls")
                   ELSE TdpCheck(d.err, "could not get user list", "activeUserCount"))
    /\ UNCHANGED <<envVars, lsPos, users, whoVars, newsVars, activeCount, uptime, stdout>>

\* lines 481-488: `ls homesDir()` runs, or cannot be run
GetUsersLs ==
    /\ pc = "getUsers.ls"
    /\ \E e \in {NoErr, "could not run ls"} :
          Goto(IF e = NoErr THEN Inside("getUsers.scan")
               ELSE TdpCheck(e, "could not get user list", "activeUserCount"))
    /\ lsPos' = 1
    /\ UNCHANGED <<envVars, defaultIndexHTML, users, whoVars, newsVars,
                   activeCount, uptime, stdout, calls>>

\* lines 490-502: one pass of the loop over the listed names
GetUsersScan ==
    /\ pc = "getUsers.scan"
    /\ ScanHasLine(lsOut, lsPos)
    /\ LET username == ScanText(lsOut, lsPos)
       IN  users' = IF username \in systemUsers(envSystemUsers)
                    THEN users
                    ELSE Append(users, NewUser(username, homes[username], defaultIndexHTML))
    /\ lsPos' = ScanNextPos(lsOut, lsPos)
    /\ UNCHANGED <<pc, envVars, defaultIndexHTML, whoVars, newsVars, mainVars, calls>>

\* line 504, then tdp lines 545-548
GetUsersReturn ==
    /\ pc = "getUsers.scan"
    /\ ~ScanHasLine(lsOut, lsPos)
    /\ Goto(TdpCheck(NoErr, "could not get user list", "activeUserCount"))
    /\ UNCHANGED <<envVars, userVars, whoVars, newsVars, activeCount, uptime, stdout, calls>>

(***************************************************************************)
(* activeUserCount                                                         *)
(***************************************************************************)
\* line 529 without the Split
WhoUsernameWholeLine(whoLine) == whoLine

\* line 529: strings.Split(whoLine, " ")[0]
WhoUsername(whoLine) == Split(whoLine, " ")[1]

\* lines 518-525: `who` runs, or cannot be run (then tdp lines 550-552)
ActiveWho ==
    /\ pc = "activeUserCount"
    /\ Enter("activeUserCount")
    /\ \E e \in {NoErr, "could not run who"} :
          Goto(IF e = NoErr THEN Inside("activeUserCount.scan")
               ELSE TdpCheck(e, "could not count non-default users", "getNews"))
    /\ whoPos' = 1
    /\ activeUsers' = {}
    /\ UNCHANGED <<envVars, userVars, newsVars, activeCount, uptime, stdout>>

\* lines 527-531: one pass of the loop over the lines of `who`
ActiveScan ==
    /\ pc = "activeUserCount.scan"
    /\ ScanHasLine(whoOut, whoPos)
    /\ activeUsers' = activeUsers \cup {WhoUsername(ScanText(whoOut, whoPos))}
    /\ whoPos' = ScanNextPos(whoOut, whoPos)
    /\ UNCHANGED <<pc, envVars, userVars, newsVars, mainVars, calls>>

\* line 533, then tdp lines 549-552
ActiveReturn ==
    /\ pc = "activeUserCount.scan"
    /\ ~ScanHasLine(whoOut, whoPos)
    /\ activeCount' = Cardinality(activeUsers)
    /\ Goto(TdpCheck(NoErr, "could not count non-default users", "getNews"))
    /\ UNCHANGED <<envVars, userVars, whoVars, newsVars, uptime, stdout, calls>>

(***************************************************************************)
(* getNews                                                                 *)
(***************************************************************************)
\* newsEntry{}
BlankEntry == [Title |-> <<>>, Pubdate |-> <<>>, Content |-> <<>>]

\* blankLineRe = `^ *\n$`: spaces only, then a newline, then the end of the text
BlankLineMatch(s) ==
    /\ Len(s) >= 1
    /\ s[Len(s)] = NL
    /\ \A i \in 1..(Len(s) - 1) : s[i] = " "

\* line 324: the lines the loop passes over
IsSkipped(newsLine) ==
    \/ HasPrefix(newsLine, <<"#">>)
    \/ newsLine = <<>>
    \/ BlankLineMatch(newsLine)

\* line 326 with == for HasPrefix
IsDelimiterExact(newsLine) == newsLine = <<"-", "-">>

\* line 326
IsDelimiter(newsLine) == HasPrefix(newsLine, <<"-", "-">>)

\* line 340 with || for &&
MetaDoneEither(e) == e.Pubdate # <<>> \/ e.Title # <<>>

\* line 340: both fields are taken as set
MetaDone(e) == e.Pubdate # <<>> /\ e.Title # <<>>

\* line 345 without the TrimSpace
AppendContentUntrimmed(e, newsLine) ==
    [e EXCEPT !.Content = @ \o <<NL>> \o newsLine]

\* line 345
AppendContent(e, newsLine) ==
    [e EXCEPT !.Content = @ \o <<NL>> \o TrimSpace(newsLine)]

\* lines 332-339: kv[1] is indexed only under the two known keys, and
\* panics (index out of range) when the line holds no colon
MetaPanics(newsLine) ==
    LET kv == SplitN2(newsLine, ":")
    IN  kv[1] \in {<<"pubdate">>, <<"title">>} /\ Len(kv) < 2

MetaSet(e, newsLine) ==
    LET kv == SplitN2(newsLine, ":")
    IN  IF kv[1] = <<"pubdate">> THEN [e EXCEPT !.Pubdate = TrimSpace(kv[2])]
        ELSE IF kv[1] = <<"title">> THEN [e EXCEPT !.Title = TrimSpace(kv[2])]
        ELSE e

\* the parser's variables, as one value
NewsState(m, c, cur, es, panic) ==
    [inMeta |-> m, inContent |-> c, current |-> cur, entries |-> es, panic |-> panic]

NewsStart == NewsState(TRUE, FALSE, BlankEntry, <<>>, FALSE)

\* lines 323-346: the loop body on one line
NewsStep(st, newsLine) ==
    IF IsSkipped(newsLine) THEN st
    ELSE IF IsDelimiter(newsLine)
    THEN NewsState(TRUE, FALSE, BlankEntry, Append(st.entries, st.current), FALSE)
    ELSE IF st.inMeta
    THEN IF MetaPanics(newsLine) THEN [st EXCEPT !.panic = TRUE]
         ELSE LET e == MetaSet(st.current, newsLine)
              IN  IF MetaDone(e)
                  THEN NewsState(FALSE, TRUE, e, st.entries, FALSE)
                  ELSE NewsState(st.inMeta, st.inContent, e, st.entries, FALSE)
    ELSE IF st.inContent
    THEN [st EXCEPT !.current = AppendContent(st.current, newsLine)]
    ELSE st

\* line 348 preceded by a flush of the open entry
ReturnedEntriesFlushed(es, cur) == Append(es, cur)

\* line 348: what getNews returns when the scanner is exhausted
ReturnedEntries(es, cur) == es

\* what the scanner can read of the news file
NewsText == IF newsFile.st = "ok" THEN newsFile.bytes ELSE <<>>

\* lines 304-320: the parser is set up and the file opened (tdp lines 553-556)
GetNewsOpen ==
    /\ pc = "getNews"
    /\ Enter("getNews")
    /\ inMeta' = TRUE
    /\ inContent' = FALSE
    /\ current' = BlankEntry
    /\ entries' = <<>>
    /\ newsPos' = 1
    /\ LET e == IF newsFile.st = "noent" THEN "unable to read news file" ELSE NoErr
       IN  Goto(IF e = NoErr THEN Inside("getNews.scan")
                ELSE TdpCheck(e, "could not get news", "getUptime"))
    /\ UNCHANGED <<envVars, userVars, whoVars, activeCount, uptime, stdout>>

\* lines 322-347: one pass of the loop; a panic ends the process with status 2
GetNewsScan ==
    /\ pc = "getNews.scan"
    /\ ScanHasLine(NewsText, newsPos)
    /\ LET st == NewsStep(NewsState(inMeta, inContent, current, entries, FALSE),
                          ScanText(NewsText, newsPos))
       IN  /\ inMeta' = st.inMeta
           /\ inContent' = st.inContent
           /\ current' = st.current
           /\ entries' = st.entries
           /\ pc' = IF st.panic THEN "exit" ELSE pc
           /\ exitCode' = IF st.panic THEN 2 ELSE exitCode
           /\ diag' = IF st.panic THEN <<"panic", "index out of range">> ELSE diag
           /\ err' = err
    /\ newsPos' = ScanNextPos(NewsText, newsPos)
    /\ UNCHANGED <<envVars, userVars, whoVars, activeCount, uptime, stdout, calls>>

\* line 348, then tdp lines 553-556
GetNewsReturn ==
    /\ pc = "getNews.scan"
    /\ ~ScanHasLine(NewsText, newsPos)
    /\ entries' = ReturnedEntries(entries, current)
    /\ Goto(TdpCheck(NoErr, "could not get news", "getUptime"))
    /\ UNCHANGED <<envVars, userVars, whoVars, newsPos, inMeta, inContent, current,
                   activeCount, uptime, stdout, calls>>

(***************************************************************************)
(* getUptime, the tildeData literal, main                                  *)
(***************************************************************************)
\* lines 536-542, then tdp lines 558-561
GetUptime ==
    /\ pc = "getUptime"
    /\ Enter("getUptime")
    /\ \E e \in {NoErr, "could not run uptime"} :
          /\ uptime' = IF e = NoErr THEN TrimSpace(uptimeOut) ELSE <<>>
          /\ Goto(TdpCheck(e, "could not determine uptime", "main.marshal"))
    /\ UNCHANGED <<envVars, userVars, whoVars, newsVars, activeCount, stdout>>

\* lines 563-578 (the fields computed from the run)
TildeData ==
    [ UserCount       |-> Len(users),
      Users           |-> users,
      LiveUserCount   |-> liveUserCount(users),
      ActiveUserCount |-> activeCount,
      Uptime          |-> uptime,
      News            |-> entries ]

\* lines 586-590: json.Marshal, then the one Printf to standard output
MainMarshal ==
    /\ pc = "main.marshal"
    /\ \E ok \in BOOLEAN :
          IF ok
          THEN /\ stdout' = Append(stdout, TildeData)
               /\ Goto([pc |-> "exit", exitCode |-> 0, diag |-> <<>>, err |-> NoErr])
          ELSE /\ stdout' = stdout
               /\ Goto([pc |-> "exit", exitCode |-> 1, err |-> "marshal error",
                        diag |-> <<"Failed to marshal JSON", "marshal error">>])
    /\ UNCHANGED <<envVars, userVars, whoVars, newsVars, activeCount, uptime, calls>>

Next ==
    \/ GetUsersDefault
    \/ GetUsersLs
    \/ GetUsersScan
    \/ GetUsersReturn
    \/ ActiveWho
    \/ ActiveScan
    \/ ActiveReturn
    \/ GetNewsOpen
    \/ GetNewsScan
    \/ GetNewsReturn
    \/ GetUptime
    \/ MainMarshal

(***************************************************************************)
(* The environments a run starts in.                                       *)
(***************************************************************************)
Components == {"getUsers", "activeUserCount", "getNews", "getUptime"}

\* the template page and the pages users publish
Template   == <<"<title>", "welcome", "</title>">>
CustomPage == <<"<h1>", "hi", NL, "<title>", "my", " ", "page", "</title>">>

DefaultIndexFiles == {File("ok", Template), NoFile, File("ioerr", <<>>)}

\* the names `ls` may list
Names == {<<"alice">>, <<"bob">>, <<"root">>}

\* no public_html at all
AbsentHome == Home(<<WalkErr>>, NoFile, NoFile)

HomeKinds ==
    { AbsentHome,
      \* public_html without an entry page
      Home(<<WalkOk(3)>>, NoFile, NoFile),
      \* the untouched template
      Home(<<WalkOk(1), WalkOk(2)>>, File("ok", Template), NoFile),
      \* only index.htm, a page of the user's own
      Home(<<WalkOk(5), WalkOk(4)>>, NoFile, File("ok", CustomPage)),
      \* index.html cannot be read, and a directory below cannot be walked
      Home(<<WalkOk(2), WalkErr, WalkOk(7)>>, File("ioerr", <<>>), File("ok", Template)) }

\* SYSTEM_USERS
SystemUsersEnvs ==
    { <<>>, <<"alice">>, <<"alice", ",", "bob">>, <<"bob", ",", " ", "alice">>, <<",">> }

\* listings: distinct names, at most n of them
Listings(n) ==
    {l \in SeqUpTo(Names, n) : \A i, j \in 1..Len(l) : i # j => l[i] # l[j]}

\* the lines of a news file
TitleLine     == <<"title", ":", " ", "Hello", " ">>
PubdateLine   == <<"pubdate", ":", " ", "Jan", " ", "1">>
DelimiterLine == <<"-", "-">>
NewsLines ==
    { <<>>, <<" ">>, <<"#", " ", "note">>, DelimiterLine,
      TitleLine, PubdateLine, <<"title", ":">>, <<"title">>,
      <<" ", "author", ":", " ", "x", " ">> }

\* the lines `who` prints
WhoLines ==
    { <<"alice", " ", "pts/0">>, <<"bob", " ", "pts/1">>, <<"alice", " ", "pts/2">>,
      <<"alice", "\t", "pts/0">>, <<"alice", "\t", "pts/1">>,
      <<>>, <<" ", "x">> }

UptimeOut == <<" ", "up", " ", "3", " ", "days", NL>>

\* the environment of a run
Environment(listings, kinds, envs, defaults, whoTexts, newsFiles) ==
    /\ defaultIndexFile \in defaults
    /\ envSystemUsers \in envs
    /\ \E l \in listings :
          /\ lsOut = Unlines(l, TRUE)
          /\ homes \in [Names -> kinds \cup {AbsentHome}]
          /\ \A n \in Range(l) : homes[n] \in kinds
          /\ \A n \in Names \ Range(l) : homes[n] = AbsentHome
    /\ whoOut \in whoTexts
    /\ newsFile \in newsFiles
    /\ uptimeOut = UptimeOut

\* the first statement of main
AtMain ==
    /\ pc = "getUsers"
    /\ defaultIndexHTML = <<>>
    /\ lsPos = 1
    /\ users = <<>>
    /\ whoPos = 1
    /\ activeUsers = {}
    /\ newsPos = 1
    /\ inMeta = TRUE
    /\ inContent = FALSE
    /\ current = BlankEntry
    /\ entries = <<>>
    /\ activeCount = 0
    /\ uptime = <<>>
    /\ stdout = <<>>
    /\ diag = <<>>
    /\ exitCode = -1
    /\ err = NoErr
    /\ calls = [f \in Components |-> 0]

OneListing == {<<<<"root">>, <<"alice">>>>}
OneHome    == Home(<<WalkOk(5), WalkOk(4)>>, NoFile, File("ok", CustomPage))
OneWho     == {Unlines(<<<<"alice", " ", "pts/0">>>>, TRUE)}
OneNews    == {File("ok", Unlines(<<TitleLine, PubdateLine, <<"body">>, DelimiterLine>>, TRUE)),
               NoFile}

\* every listing, exclusion list and template file; one `who`, two news files
Init ==
    /\ Environment(Listings(MaxHomes), HomeKinds, SystemUsersEnvs, DefaultIndexFiles,
                   OneWho, OneNews)
    /\ AtMain

Spec == Init /\ [][Next]_vars

\* tdp about to call activeUserCount, getUsers having returned
AtActiveUserCount ==
    /\ pc = "activeUserCount"
    /\ defaultIndexHTML = Template
    /\ lsPos = Len(lsOut) + 1
    /\ users = <<NewUser(<<"alice">>, OneHome, Template)>>
    /\ whoPos = 1
    /\ activeUsers = {}
    /\ newsPos = 1
    /\ inMeta = TRUE
    /\ inContent = FALSE
    /\ current = BlankEntry
    /\ entries = <<>>
    /\ activeCount = 0
    /\ uptime = <<>>
    /\ stdout = <<>>
    /\ diag = <<>>
    /\ exitCode = -1
    /\ err = NoErr
    /\ calls = [f \in Components |-> IF f = "getUsers" THEN 1 ELSE 0]

\* every output of `who` of at most MaxWhoLines lines
WhoTexts == {Unlines(l, TRUE) : l \in SeqUpTo(WhoLines, MaxWhoLines)}

InitWho ==
    /\ Environment(OneListing, {OneHome}, {<<>>}, {File("ok", Template)}, WhoTexts, OneNews)
    /\ AtActiveUserCount

NextWho ==
    \/ ActiveWho
    \/ ActiveScan
    \/ ActiveReturn
    \/ GetNewsOpen
    \/ GetNewsScan
    \/ GetNewsReturn
    \/ GetUptime
    \/ MainMarshal

\* the run from tdp's call of activeUserCount on
SpecWho == InitWho /\ [][NextWho]_vars

\* tdp about to call getNews, getUsers and activeUserCount having returned
AtGetNews ==
    /\ pc = "getNews"
    /\ defaultIndexHTML = Template
    /\ lsPos = Len(lsOut) + 1
    /\ users = <<NewUser(<<"alice">>, OneHome, Template)>>
    /\ whoPos = Len(whoOut) + 1
    /\ activeUsers = {<<"alice">>}
    /\ newsPos = 1
    /\ inMeta = TRUE
    /\ inContent = FALSE
    /\ current = BlankEntry
    /\ entries = <<>>
    /\ activeCount = 1
    /\ uptime = <<>>
    /\ stdout = <<>>
    /\ diag = <<>>
    /\ exitCode = -1
    /\ err = NoErr
    /\ calls = [f \in Components |-> IF f \in {"getUsers", "activeUserCount"} THEN 1 ELSE 0]

\* every news file of at most MaxNewsLines lines
NewsFiles ==
    {File("ok", Unlines(l, TRUE)) : l \in SeqUpTo(NewsLines, MaxNewsLines)}
        \cup {NoFile, File("ioerr", <<>>)}

InitNews ==
    /\ Environment(OneListing, {OneHome}, {<<>>}, {File("ok", Template)}, OneWho, NewsFiles)
    /\ AtGetNews

NextNews ==
    \/ GetNewsOpen
    \/ GetNewsScan
    \/ GetNewsReturn
    \/ GetUptime
    \/ MainMarshal

\* the run from tdp's call of getNews on
SpecNews == InitNews /\ [][NextNews]_vars

\* the states AtActiveUserCount and AtGetNews describe are states of a whole run
MidRunEnvironment ==
    /\ lsOut = Unlines(<<<<"root">>, <<"alice">>>>, TRUE)
    /\ homes[<<"alice">>] = OneHome
    /\ envSystemUsers = <<>>
    /\ defaultIndexFile = File("ok", Template)
NotAtActiveUserCount == ~(MidRunEnvironment /\ AtActiveUserCount)
NotAtGetNews         == ~(MidRunEnvironment /\ AtGetNews)

(***************************************************************************)
(* News files holding one record: a title line and a pubdate line (in      *)
(* either order), at most MaxBody body lines, a delimiter line; the last   *)
(* line with or without its newline.                                       *)
(***************************************************************************)
BodyLineOne == <<"body", " ", "line", " ", "one">>
BodyLineTwo == <<"body", " ", "line", " ", "two">>
RecordTitleLines   == {TitleLine, <<"title", ":", "Hello">>, <<"title", ":", " ", "Re", ":", " ", "x">>}
RecordPubdateLines == {PubdateLine}
RecordBodyLines ==
    { BodyLineOne, BodyLineTwo, <<" ", "padded", "\t">>, <<"title", ":", " ", "x">>, <<" ">> }

RecordFiles ==
    { File("ok", Unlines(head \o body \o <<DelimiterLine>>, eol)) :
        head \in {<<t, p>> : t \in RecordTitleLines, p \in RecordPubdateLines}
                 \cup {<<p, t>> : t \in RecordTitleLines, p \in RecordPubdateLines},
        body \in SeqUpTo(RecordBodyLines, MaxBody),
        eol  \in BOOLEAN }

InitRecord ==
    /\ Environment(OneListing, {OneHome}, {<<>>}, {File("ok", Template)}, OneWho, RecordFiles)
    /\ AtGetNews

SpecRecord == InitRecord /\ [][NextNews]_vars

(***************************************************************************)
(* What the claims about getNews speak of.                                 *)
(***************************************************************************)
\* getNews has returned to tdp without an error
NewsReturned ==
    \/ pc \in {"getUptime", "main.marshal"}
    \/ pc = "exit" /\ calls["getUptime"] = 1

\* the loop of getNews is running
NewsScanning == pc = "getNews.scan"

AllNewsLines == ScanAll(NewsText, 1)

\* the lines the loop has passed
NewsLinesRead == ScanAll(SubSeq(NewsText, 1, Min(newsPos - 1, Len(NewsText))), 1)

\* the line the next pass of the loop takes
NextNewsLine == ScanText(NewsText, newsPos)

\* the line `key: value`, and its value
IsKeyLine(l, key) == Len(l) >= 2 /\ l[1] = key /\ l[2] = ":"
ValueOf(l) == SubSeq(l, 3, Len(l))

\* a line that begins with `--`
IsDashLine(l) == Len(l) >= 2 /\ l[1] = "-" /\ l[2] = "-"

\* a line of the body of a record: not empty, no comment, no delimiter
IsBodyLine(l) == l # <<>> /\ l[1] # "#" /\ ~IsDashLine(l)

OnlySpaces(l) == \A i \in 1..Len(l) : l[i] \in {" ", "\t"}

RECURSIVE JoinedBody(_)
JoinedBody(body) ==
    IF body = <<>> THEN <<>>
    ELSE <<NL>> \o TrimSpace(body[1]) \o JoinedBody(Tail(body))

\* l is one record: title and pubdate with values, body lines, a delimiter line
IsOneRecord(l) ==
    /\ Len(l) >= 3
    /\ \/ IsKeyLine(l[1], "title") /\ IsKeyLine(l[2], "pubdate")
       \/ IsKeyLine(l[1], "pubdate") /\ IsKeyLine(l[2], "title")
    /\ TrimSpace(ValueOf(l[1])) # <<>>
    /\ TrimSpace(ValueOf(l[2])) # <<>>
    /\ \A i \in 3..(Len(l) - 1) : IsBodyLine(l[i])
    /\ l[Len(l)] = <<"-", "-">>

EntryOfRecord(l) ==
    LET t == IF IsKeyLine(l[1], "title") THEN l[1] ELSE l[2]
        p == IF IsKeyLine(l[1], "title") THEN l[2] ELSE l[1]
    IN  [ Title   |-> TrimSpace(ValueOf(t)),
          Pubdate |-> TrimSpace(ValueOf(p)),
          Content |-> JoinedBody(SubSeq(l, 3, Len(l) - 1)) ]

\* C1: a news file that is one record (title and pubdate lines with values,
\* n >= 0 body lines, a `--` line) yields exactly one entry: the trimmed title
\* and pubdate, and as content "\n" + the trimmed text of each body line, in
\* file order.
C1_OneRecordOneEntry ==
    (NewsReturned /\ IsOneRecord(AllNewsLines))
        => entries = <<EntryOfRecord(AllNewsLines)>>

\* the scenario of spec.md s.8 has been parsed
C1_Witness ==
    /\ NewsReturned
    /\ AllNewsLines = <<<<"title", ":", " ", "Hello">> \o <<" ">>, PubdateLine,
                        BodyLineOne, BodyLineTwo, DelimiterLine>>
    /\ entries = << [ Title   |-> <<"Hello">>,
                      Pubdate |-> <<"Jan", " ", "1">>,
                      Content |-> <<NL, "body", " ", "line", " ", "one",
                                    NL, "body", " ", "line", " ", "two">> ] >>

\* C2: a line that is empty, holds only whitespace or begins with `#` leaves
\* the current entry, the parser state and the result unchanged, in either
\* parser state.
C2_SkippedLinesChangeNothing ==
    [][ ( /\ NewsScanning
          /\ ScanHasLine(NewsText, newsPos)
          /\ \/ NextNewsLine = <<>>
             \/ OnlySpaces(NextNewsLine)
             \/ NextNewsLine[1] = "#" )
        => UNCHANGED <<current, inMeta, inContent, entries>> ]_vars

\* the lines of the record being read: those passed since the last delimiter line
RECURSIVE OpenRecordLines(_)
OpenRecordLines(l) ==
    IF l = <<>> THEN <<>>
    ELSE IF IsDashLine(l[Len(l)]) THEN <<>>
    ELSE Append(OpenRecordLines(SubSeq(l, 1, Len(l) - 1)), l[Len(l)])

\* a `key:` line is among the lines of the open record
KeyWasSet(key) ==
    \E i \in 1..Len(OpenRecordLines(NewsLinesRead)) :
        LET l == OpenRecordLines(NewsLinesRead)[i]
        IN  Len(l) >= 2 /\ l[1] = key /\ l[2] = ":"

\* C3 as stated: the parser is in reading-content exactly when both `title`
\* and `pubdate` have been set in the open record, whatever the values.
C3_ContentOnceBothSet ==
    NewsScanning => (inContent <=> (KeyWasSet("title") /\ KeyWasSet("pubdate")))

\* C3, amended: the parser is in reading-content exactly when title and
\* pubdate both hold a non-empty value; it moves there on the line that gives
\* the second of them a non-empty value, never while one is empty; from then
\* on every line that is not empty and begins with neither `#` nor `--` is
\* appended to content, `key: value` lines included, and nothing else changes.
C3_ContentOnceBothNonEmpty ==
    [][ (NewsScanning /\ ScanHasLine(NewsText, newsPos) /\ pc' = pc) =>
          /\ inMeta' = ~inContent'
          /\ inContent' <=> (current'.Title # <<>> /\ current'.Pubdate # <<>>)
          /\ (inMeta /\ inContent') =>
                \/ /\ IsKeyLine(NextNewsLine, "title")
                   /\ current.Title = <<>> /\ current.Pubdate # <<>>
                   /\ current'.Title = TrimSpace(ValueOf(NextNewsLine))
                \/ /\ IsKeyLine(NextNewsLine, "pubdate")
                   /\ current.Pubdate = <<>> /\ current.Title # <<>>
                   /\ current'.Pubdate = TrimSpace(ValueOf(NextNewsLine))
          /\ (inContent /\ IsBodyLine(NextNewsLine)) =>
                /\ inContent'
                /\ entries' = entries
                /\ current' = [current EXCEPT
                                 !.Content = @ \o <<NL>> \o TrimSpace(NextNewsLine)]
      ]_vars

\* pubdate first, title second, then a `title:` line taken as content
C3_Witness ==
    /\ NewsScanning
    /\ NewsLinesRead = <<PubdateLine, TitleLine, TitleLine>>
    /\ inContent
    /\ current.Content = <<NL>> \o TrimSpace(TitleLine)

\* C4: whatever the lines of a news file that can be opened, getNews reads
\* them all and returns to tdp: the run never ends inside the loop.
C4_NoLineAborts ==
    (pc = "exit" /\ calls["getNews"] = 1 /\ newsFile.st # "noent") => NewsReturned

\* the lines up to and including the last delimiter line
RECURSIVE ClosedLines(_)
ClosedLines(l) ==
    IF l = <<>> THEN <<>>
    ELSE IF IsDashLine(l[Len(l)]) THEN l
    ELSE ClosedLines(SubSeq(l, 1, Len(l) - 1))

\* the parser's state after the given lines
RECURSIVE NewsAfter(_)
NewsAfter(l) ==
    IF l = <<>> THEN NewsStart
    ELSE NewsStep(NewsAfter(SubSeq(l, 1, Len(l) - 1)), l[Len(l)])

\* C8: when getNews returns, an entry still open at the end of the input is
\* not in the result: the result is what the lines up to the last delimiter
\* line produced, one entry per delimiter line.
C8_OpenEntryDropped ==
    NewsReturned =>
        /\ entries = NewsAfter(ClosedLines(AllNewsLines)).entries
        /\ Len(entries) = Len(SelectSeq(AllNewsLines, IsDashLine))

\* the input ended in reading-content, after a closed record
C8_Witness ==
    /\ NewsReturned
    /\ Len(entries) = 1
    /\ inContent
    /\ current.Content # <<>>

(***************************************************************************)
(* What the claims about getUsers, activeUserCount and tdp speak of.       *)
(***************************************************************************)
\* getUsers has returned to tdp without an error
UsersReturned ==
    \/ pc \in {"activeUserCount", "activeUserCount.scan", "getNews", "getNews.scan",
               "getUptime", "main.marshal"}
    \/ pc = "exit" /\ calls["activeUserCount"] = 1

\* activeUserCount has returned to tdp without an error
ActiveReturned ==
    \/ pc \in {"getNews", "getNews.scan", "getUptime", "main.marshal"}
    \/ pc = "exit" /\ calls["getNews"] = 1

\* C5: when the default template page cannot be read, the run continues:
\* getUsers returns the user list without an error, every user with
\* isDefaultPage = false.
C5_TemplateFailureTolerated ==
    (defaultIndexFile.st # "ok" /\ calls["getUsers"] = 1 /\ pc = "exit")
        => /\ UsersReturned
           /\ \A i \in 1..Len(users) : ~users[i].DefaultPage

\* C6: a failed stage ends the run with a diagnostic, a non-zero status and
\* nothing on standard output; a document is written (once) only after
\* getUsers, activeUserCount, getNews and getUptime have each run exactly
\* once and returned without an error.
C6_FatalOrDocument ==
    /\ \A f \in Components : calls[f] <= 1
    /\ (err # NoErr) =>
          /\ pc = "exit"
          /\ exitCode = 1
          /\ diag # <<>>
          /\ stdout = <<>>
    /\ (newsFile.st = "noent" /\ calls["getNews"] = 1) => err # NoErr
    /\ (pc = "exit" /\ exitCode # 0) => (stdout = <<>> /\ diag # <<>>)
    /\ (stdout # <<>>) =>
          /\ Len(stdout) = 1
          /\ pc = "exit"
          /\ exitCode = 0
          /\ \A f \in Components : calls[f] = 1
          /\ UsersReturned /\ ActiveReturned /\ NewsReturned
          /\ stdout[1].Users = users
          /\ stdout[1].News = entries

\* a run that wrote its document
C6_Witness ==
    /\ pc = "exit"
    /\ exitCode = 0
    /\ Len(stdout) = 1
    /\ stdout[1].UserCount = 2
    /\ Len(stdout[1].News) = 1

\* the listed names, and those of them that are not excluded
ListedNames == ScanAll(lsOut, 1)
NotExcluded(n) == n \notin systemUsers(envSystemUsers)
NoEntryPage(h) == h.html.st = "noent" /\ h.htm.st = "noent"
NoPublicHtml(h) == h.walk[1].err

\* C7: after a successful listing getUsers returns one record per listed name
\* that is not excluded, in listing order, each made from that user's own
\* files: without an entry page the title is empty and isDefaultPage false,
\* without public_html lastModified is 0 as well.
C7_OneRecordPerUser ==
    UsersReturned =>
        LET kept == SelectSeq(ListedNames, NotExcluded)
        IN  /\ Len(users) = Len(kept)
            /\ \A i \in 1..Len(kept) :
                  /\ users[i].Username = kept[i]
                  /\ users[i] = NewUser(kept[i], homes[kept[i]], defaultIndexFile.bytes)
                  /\ NoEntryPage(homes[kept[i]]) =>
                        (users[i].PageTitle = <<>> /\ ~users[i].DefaultPage)
                  /\ NoPublicHtml(homes[kept[i]]) =>
                        (users[i].PageTitle = <<>> /\ ~users[i].DefaultPage
                           /\ users[i].Mtime = 0)

\* a user without public_html, followed by a user with a page of their own
C7_Witness ==
    /\ UsersReturned
    /\ Len(users) = 2
    /\ homes[users[1].Username] = AbsentHome
    /\ users[1].Mtime = 0
    /\ users[2].PageTitle = <<"my", " ", "page">>
    /\ users[2].Mtime = 5

\* the names of the comma-separated list: its maximal comma-free stretches
EnvListNames ==
    IF envSystemUsers = <<>> THEN {}
    ELSE { SubSeq(envSystemUsers, i, j) :
             <<i, j>> \in { p \in (1..(Len(envSystemUsers) + 1)) \X (0..Len(envSystemUsers)) :
                   /\ p[2] >= p[1] - 1
                   /\ \A k \in p[1]..p[2] : envSystemUsers[k] # ","
                   /\ (p[1] = 1 \/ envSystemUsers[p[1] - 1] = ",")
                   /\ (p[2] = Len(envSystemUsers) \/ envSystemUsers[p[2] + 1] = ",") } }

\* C10: no name of the built-in exclusion set (ubuntu, ttadmin, root) or of
\* the SYSTEM_USERS list is the username of a returned user, whatever files
\* that name has.
C10_ExcludedNeverListed ==
    \A i \in 1..Len(users) :
        users[i].Username \notin ({<<"ubuntu">>, <<"ttadmin">>, <<"root">>} \cup EnvListNames)

\* alice and root are listed, both with pages, alice is excluded by SYSTEM_USERS
C10_Witness ==
    /\ UsersReturned
    /\ ListedNames = <<<<"alice">>, <<"root">>>>
    /\ <<"alice">> \in EnvListNames
    /\ ~NoEntryPage(homes[<<"alice">>])
    /\ ~NoEntryPage(homes[<<"root">>])
    /\ users = <<>>

AllWhoLines == ScanAll(whoOut, 1)

\* the text of a line before its first whitespace (space or tab)
RECURSIVE BeforeWhitespace(_)
BeforeWhitespace(l) ==
    IF l = <<>> THEN <<>>
    ELSE IF l[1] \in {" ", "\t"} THEN <<>>
    ELSE <<l[1]>> \o BeforeWhitespace(Tail(l))

\* the text of a line before its first space
RECURSIVE BeforeSpace(_)
BeforeSpace(l) ==
    IF l = <<>> THEN <<>>
    ELSE IF l[1] = " " THEN <<>>
    ELSE <<l[1]>> \o BeforeSpace(Tail(l))

\* C9 as stated: the count is the number of distinct tokens, a line's token
\* being its text before the first run of spaces or tabs.
C9_DistinctBeforeWhitespace ==
    ActiveReturned =>
        activeCount = Cardinality({BeforeWhitespace(AllWhoLines[i]) : i \in 1..Len(AllWhoLines)})

\* C9, amended: the count is the number of distinct tokens, a line's token
\* being its text before the first space (a tab does not end the token);
\* repeated sessions of a name count once, and lines with an empty token
\* count as one entry for the empty name.
C9_DistinctBeforeSpace ==
    ActiveReturned =>
        activeCount = Cardinality({BeforeSpace(AllWhoLines[i]) : i \in 1..Len(AllWhoLines)})

\* the scenario of spec.md s.8
C9_Witness ==
    /\ ActiveReturned
    /\ AllWhoLines = << <<"alice", " ", "pts/0">>, <<"bob", " ", "pts/1">>,
                        <<"alice", " ", "pts/2">> >>
    /\ activeCount = 2

(***************************************************************************)
(* News files whose lines include lines that begin with `--` and go on.    *)
(***************************************************************************)
DashedLine == <<"-", "-", " ", "x">>
DelimNewsLines ==
    { <<>>, <<"#", " ", "note">>, DelimiterLine, DashedLine, <<"-", "-", "-">>,
      TitleLine, PubdateLine, <<"body", " ">> }

DelimNewsFiles ==
    {File("ok", Unlines(l, TRUE)) : l \in SeqUpTo(DelimNewsLines, MaxNewsLines)}

InitDelim ==
    /\ Environment(OneListing, {OneHome}, {<<>>}, {File("ok", Template)}, OneWho,
                   DelimNewsFiles)
    /\ AtGetNews

SpecDelim == InitDelim /\ [][NextNews]_vars

\* a pass of the loop of getNews that does not end the run
NewsPass == NewsScanning /\ ScanHasLine(NewsText, newsPos) /\ pc' = pc

\* a line that consists solely of dashes, two or more
OnlyDashes(l) == Len(l) >= 2 /\ \A i \in 1..Len(l) : l[i] = "-"

\* C11 as stated: a line consisting solely of the dash delimiter, and no
\* other line, closes the record: it appends the entry as it is, title or
\* pubdate set or not, and leaves the parser in reading-metadata with a
\* blank entry; every other line leaves the result as it was.
C11_OnlyTheDashLineCloses ==
    [][ NewsPass =>
          IF OnlyDashes(NextNewsLine)
          THEN /\ entries' = Append(entries, current)
               /\ current' = BlankEntry
               /\ inMeta' /\ ~inContent'
          ELSE entries' = entries ]_vars

\* C11, amended: a line that begins with `--`, whatever follows on it,
\* closes the record in either parser state: it appends the entry as it is,
\* title or pubdate set or not, and leaves the parser in reading-metadata
\* with a blank entry; a line that does not begin with `--` never appends an
\* entry.
C11_DashPrefixCloses ==
    [][ NewsPass =>
          IF IsDashLine(NextNewsLine)
          THEN /\ entries' = Append(entries, current)
               /\ current' = BlankEntry
               /\ inMeta' /\ ~inContent'
          ELSE entries' = entries ]_vars

\* a blank entry closed by `--` in reading-metadata, then a record closed in
\* reading-content by a line that begins with `--`; the parser is back in
\* reading-metadata with a blank entry
C11_Witness ==
    /\ NewsScanning
    /\ NewsLinesRead = <<DelimiterLine, TitleLine, PubdateLine, DashedLine>>
    /\ entries = << BlankEntry,
                    [ Title |-> <<"Hello">>, Pubdate |-> <<"Jan", " ", "1">>,
                      Content |-> <<>> ] >>
    /\ current = BlankEntry
    /\ inMeta
    /\ ~inContent

====
